---- MODULE Spec2Model ----
(***************************************************************************)
(* A model of src/src/utils.py of the market-data pipeline:                *)
(*   - fetch_previous_day_5min_bars, the per-symbol batch bar fetch,       *)
(*     as a state machine (specification Spec);                            *)
(*   - _is_valid_symbol, the symbol validity predicate (SpecSymbol);       *)
(*   - get_sp500_symbols, the roster extraction (SpecRoster).              *)
(* Strings the code inspects character by character are sequences of       *)
(* one-character strings.  A calendar date is a day number, a time of day  *)
(* the minutes since midnight, a datetime a record of the two.             *)
(***************************************************************************)
EXTENDS Integers, Sequences, FiniteSets, TLC

VARIABLES
    \* fetch_previous_day_5min_bars: arguments
    symbols,        \* the list of symbols, a sequence (duplicates allowed)
    client,         \* "None" or "injected": the client argument
    date,           \* the date argument: None, a datetime or a plain date
    \* fetch_previous_day_5min_bars: environment
    now,            \* the wall clock, read by datetime.now()
    \* fetch_previous_day_5min_bars: locals and outcome
    pc,             \* "idle", "loop", "returned", "raised"
    i,              \* position of the for loop in symbols (1-based)
    entry_now,      \* the clock value datetime.now() returned at line 209
    market_open,    \* line 215
    market_close,   \* line 216
    results,        \* the dict built by the loop, a function on its keys
    calls,          \* the client.fetch_bars calls made so far, in order
    outcomes,       \* what each of those calls did (same indices as calls)
    clients_made,   \* how many YahooFinanceClient() were constructed
    exc,            \* the exception that left the function, or "none"
    retval,         \* the returned dict (meaningful when pc = "returned")
    \* _is_valid_symbol
    vsym,           \* the argument
    vpc,            \* "idle" or "done"
    vres,           \* the returned boolean
    \* get_sp500_symbols
    http,           \* what the HTTP GET does: "ok" or a requests exception
    doc,            \* the parsed document: the sequence of its tables
    rpc,            \* "idle", "returned", "raised"
    get_calls,      \* how many requests.get calls were made
    parsed,         \* whether BeautifulSoup parsed the response
    collected,      \* the list symbols built by the loop over the rows
    rexc,           \* the exception raised: a record, kind "none" if none
    roster          \* the returned list

barVars == <<symbols, client, date, now, pc, i, entry_now, market_open,
             market_close, results, calls, outcomes, clients_made, exc, retval>>
symVars == <<vsym, vpc, vres>>
rosterVars == <<http, doc, rpc, get_calls, parsed, collected, rexc, roster>>
vars == <<barVars, symVars, rosterVars>>

-----------------------------------------------------------------------------
(* Bounds of the model *)

\* the longest symbol list passed to fetch_previous_day_5min_bars
MaxSymbols == 3
\* minutes one client.fetch_bars call takes on the wall clock
CallMinutes == 10

-----------------------------------------------------------------------------
(* datetime arithmetic: datetime.combine, time(h, m), date - timedelta(days=1) *)

MinutesPerDay == 24 * 60

Time(h, m) == h * 60 + m

Combine(d, t) == [date |-> d, time |-> t]

\* the clock after n more minutes
ClockAfter(dt, n) ==
    [date |-> dt.date + ((dt.time + n) \div MinutesPerDay),
     time |-> (dt.time + n) % MinutesPerDay]

NoneDate == [kind |-> "None"]
DateTimeArg(d, t) == [kind |-> "datetime", date |-> d, time |-> t]
DateArg(d) == [kind |-> "date", date |-> d]

IsNone(x) == x.kind = "None"
IsInstanceDatetime(x) == x.kind = "datetime"

-----------------------------------------------------------------------------
(* fetch_previous_day_5min_bars *)

\* a guard that tests for None instead of emptiness
SymbolsEmptyIsNone(syms) == FALSE

\* line 200: if not symbols
SymbolsEmpty(syms) == Len(syms) = 0

\* lines 207-211: the date to fetch, from the argument and the clock reading;
\* date.date() drops the time of day, a plain date is used as it is
TargetDate(d, clock) ==
    IF IsNone(d) THEN clock.date - 1
    ELSE IF IsInstanceDatetime(d) THEN d.date
    ELSE d.date

\* line 215
MarketOpen(target) == Combine(target, Time(9, 30))

\* line 216
MarketClose(target) == Combine(target, Time(16, 0))

\* line 226
Interval == "5m"

\* a window recomputed from the clock at every call
FetchBarsCallFresh(sym) ==
    [symbol |-> sym,
     start_time |-> MarketOpen(TargetDate(date, now)),
     end_time |-> MarketClose(TargetDate(date, now)),
     interval |-> Interval]

\* lines 222-227: the arguments of the client call for one symbol
FetchBarsCall(sym) ==
    [symbol |-> sym, start_time |-> market_open, end_time |-> market_close,
     interval |-> Interval]

\* an except clause that absorbs every exception
CaughtAny(e) == TRUE

\* line 229: the exception classes the loop absorbs
Caught(e) == e \in {"ValueError", "ConnectionError"}

\* results[symbol] = value (lines 228 and 232)
DictSet(d, k, v) == [x \in (DOMAIN d) \cup {k} |-> IF x = k THEN v ELSE d[x]]

\* a store that keeps the entry a symbol already has
StoreBarsKeepFirst(d, sym, bars) ==
    IF sym \in DOMAIN d THEN d ELSE DictSet(d, sym, bars)

\* line 228
StoreBars(d, sym, bars) == DictSet(d, sym, bars)

\* a handler that records nothing for the failed symbol
StoreFailureDrops(d, sym) == d

\* line 232
StoreFailure(d, sym) == DictSet(d, sym, <<>>)

EmptyDict == [x \in {} |-> <<>>]

\* a handler that also passes over the symbol after the failed one
ContinueSkipsNext(k) == k + 2

\* line 233: continue, the loop goes on with the next symbol
Continue(k) == k + 1

-----------------------------------------------------------------------------
(* The inputs and the client's behaviours the model draws from *)

SymbolNames == {"AAPL", "MSFT", "BRK.B"}

RECURSIVE SeqsUpTo(_, _)
SeqsUpTo(S, n) ==
    IF n = 0 THEN {<<>>}
    ELSE LET shorter == SeqsUpTo(S, n - 1)
         IN  shorter \cup {Append(s, x) : s \in {t \in shorter : Len(t) = n - 1}, x \in S}

SymbolLists == SeqsUpTo(SymbolNames, MaxSymbols)

\* date arguments: absent, a datetime with a time of day, a plain date
DateArgs == {NoneDate, DateTimeArg(5, Time(11, 15)), DateArg(5)}

\* clock readings at invocation: mid-morning, and a few minutes before midnight
Clocks == {Combine(9, Time(10, 0)), Combine(9, Time(23, 55))}

\* bar sequences a client call may return (bars are opaque to this code)
BarSeqs == {<<>>, <<"bar1">>, <<"bar1", "bar2">>}

\* exceptions a client call may raise: the two the loop names, and another
ClientErrors == {"ValueError", "ConnectionError", "RuntimeError"}

-----------------------------------------------------------------------------
(* Actions of fetch_previous_day_5min_bars *)

\* lines 200-201: an empty list raises ValueError
RaiseEmpty ==
    /\ pc = "idle"
    /\ SymbolsEmpty(symbols)
    /\ pc' = "raised"
    /\ exc' = "ValueError"
    /\ UNCHANGED <<symbols, client, date, now, i, entry_now, market_open,
                   market_close, results, calls, outcomes, clients_made, retval>>

\* lines 200-218: the prelude of a call with a non-empty list
Enter ==
    /\ pc = "idle"
    /\ ~SymbolsEmpty(symbols)
    /\ clients_made' = IF client = "None" THEN clients_made + 1 ELSE clients_made
    /\ entry_now' = IF IsNone(date) THEN now ELSE entry_now
    /\ LET target_date == TargetDate(date, now)
       IN  /\ market_open' = MarketOpen(target_date)
           /\ market_close' = MarketClose(target_date)
    /\ results' = EmptyDict
    /\ i' = 1
    /\ pc' = "loop"
    /\ UNCHANGED <<symbols, client, date, now, calls, outcomes, exc, retval>>

\* lines 220-228: the client returns bars for the current symbol
FetchOk ==
    /\ pc = "loop"
    /\ i <= Len(symbols)
    /\ \E bars \in BarSeqs :
         /\ results' = StoreBars(results, symbols[i], bars)
         /\ outcomes' = Append(outcomes, [kind |-> "ok", bars |-> bars])
    /\ calls' = Append(calls, FetchBarsCall(symbols[i]))
    /\ now' = ClockAfter(now, CallMinutes)
    /\ i' = i + 1
    /\ UNCHANGED <<symbols, client, date, pc, entry_now, market_open,
                   market_close, clients_made, exc, retval>>

\* lines 220-233: the client raises; the except clause decides
FetchRaises ==
    /\ pc = "loop"
    /\ i <= Len(symbols)
    /\ \E e \in ClientErrors :
         /\ outcomes' = Append(outcomes, [kind |-> "raise", error |-> e])
         /\ IF Caught(e)
            THEN /\ results' = StoreFailure(results, symbols[i])
                 /\ i' = Continue(i)
                 /\ UNCHANGED <<pc, exc>>
            ELSE /\ pc' = "raised"
                 /\ exc' = e
                 /\ UNCHANGED <<results, i>>
    /\ calls' = Append(calls, FetchBarsCall(symbols[i]))
    /\ now' = ClockAfter(now, CallMinutes)
    /\ UNCHANGED <<symbols, client, date, entry_now, market_open,
                   market_close, clients_made, retval>>

\* line 235
Return ==
    /\ pc = "loop"
    /\ i > Len(symbols)
    /\ pc' = "returned"
    /\ retval' = results
    /\ UNCHANGED <<symbols, client, date, now, i, entry_now, market_open,
                   market_close, results, calls, outcomes, clients_made, exc>>

BarInit ==
    /\ symbols \in SymbolLists
    /\ client \in {"None", "injected"}
    /\ date \in DateArgs
    /\ now \in Clocks
    /\ pc = "idle"
    /\ i = 0
    /\ entry_now = Combine(0, 0)
    /\ market_open = Combine(0, 0)
    /\ market_close = Combine(0, 0)
    /\ results = EmptyDict
    /\ calls = <<>>
    /\ outcomes = <<>>
    /\ clients_made = 0
    /\ exc = "none"
    /\ retval = EmptyDict

BarIdle ==
    /\ symbols = <<>>
    /\ client = "injected"
    /\ date = NoneDate
    /\ now = Combine(0, 0)
    /\ pc = "off"
    /\ i = 0
    /\ entry_now = Combine(0, 0)
    /\ market_open = Combine(0, 0)
    /\ market_close = Combine(0, 0)
    /\ results = EmptyDict
    /\ calls = <<>>
    /\ outcomes = <<>>
    /\ clients_made = 0
    /\ exc = "none"
    /\ retval = EmptyDict

NoException == [kind |-> "none", message |-> <<>>, cause |-> "none"]

SymIdle ==
    /\ vsym = <<>>
    /\ vpc = "off"
    /\ vres = FALSE

RosterIdle ==
    /\ http = "ok"
    /\ doc = <<>>
    /\ rpc = "off"
    /\ get_calls = 0
    /\ parsed = FALSE
    /\ collected = <<>>
    /\ rexc = NoException
    /\ roster = <<>>

Init == BarInit /\ SymIdle /\ RosterIdle

Next ==
    \/ RaiseEmpty /\ UNCHANGED <<symVars, rosterVars>>
    \/ Enter /\ UNCHANGED <<symVars, rosterVars>>
    \/ FetchOk /\ UNCHANGED <<symVars, rosterVars>>
    \/ FetchRaises /\ UNCHANGED <<symVars, rosterVars>>
    \/ Return /\ UNCHANGED <<symVars, rosterVars>>

Spec == Init /\ [][Next]_vars

-----------------------------------------------------------------------------
(* Properties of fetch_previous_day_5min_bars *)

Range(s) == {s[k] : k \in DOMAIN s}

Absorbed(o) == o.kind = "raise" /\ o.error \in {"ValueError", "ConnectionError"}
Unanticipated(o) == o.kind = "raise" /\ o.error \notin {"ValueError", "ConnectionError"}

\* the last call made for symbol s
LastCallFor(s) == CHOOSE k \in DOMAIN calls :
    /\ calls[k].symbol = s
    /\ \A j \in DOMAIN calls : calls[j].symbol = s => j <= k

\* C1: whenever the function returns, the keys of the returned mapping are
\* exactly the symbols of the input list, whatever the client did per call;
\* and a call with a non-empty list fails only if some client call raised an
\* error that is neither a data nor a connectivity error.
C1_KeySetEqualsInput ==
    /\ pc = "returned" => DOMAIN retval = Range(symbols)
    /\ (pc = "raised" /\ Len(symbols) > 0) =>
           \E k \in DOMAIN outcomes : Unanticipated(outcomes[k])

C1_Witness ==
    /\ pc = "returned"
    /\ Len(symbols) >= 3
    /\ Cardinality(Range(symbols)) = 2
    /\ \E k \in DOMAIN outcomes : Absorbed(outcomes[k])
    /\ \E k \in DOMAIN outcomes : outcomes[k].kind = "ok"

\* C2 as stated: in a returned batch, every symbol for which some call raised
\* a data or connectivity error maps to the empty sequence, and every symbol
\* for which some call succeeded maps to the bars that call returned.
C2_Original ==
    pc = "returned" =>
        \A k \in DOMAIN outcomes :
            /\ Absorbed(outcomes[k]) => retval[calls[k].symbol] = <<>>
            /\ outcomes[k].kind = "ok" => retval[calls[k].symbol] = outcomes[k].bars

\* C2 amended: a data or connectivity error never aborts the batch, and the
\* returned mapping gives each symbol the outcome of the last call made for
\* it: empty if that call raised, the bars it returned if it succeeded.  For
\* symbols listed once this is the claim as stated.
C2_LastCallDecides ==
    /\ pc = "raised" /\ outcomes # <<>> => Unanticipated(outcomes[Len(outcomes)])
    /\ pc = "returned" =>
        /\ Len(calls) = Len(symbols)
        /\ \A s \in Range(symbols) :
             LET o == outcomes[LastCallFor(s)]
             IN  /\ s \in DOMAIN retval
                 /\ Absorbed(o) => retval[s] = <<>>
                 /\ o.kind = "ok" => retval[s] = o.bars

C2_Witness ==
    /\ pc = "returned"
    /\ \E j, k \in DOMAIN outcomes :
         /\ calls[j].symbol # calls[k].symbol
         /\ Absorbed(outcomes[j])
         /\ outcomes[k].kind = "ok" /\ outcomes[k].bars # <<>>
         /\ retval[calls[j].symbol] = <<>>
         /\ retval[calls[k].symbol] = outcomes[k].bars

\* C3: a call with an empty symbol list ends by raising ValueError, and no
\* client call is made (nor a client constructed) in that execution.
C3_EmptyListRaises ==
    Len(symbols) = 0 =>
        /\ pc \in {"idle", "raised"}
        /\ pc = "raised" => exc = "ValueError"
        /\ calls = <<>>
        /\ clients_made = 0

C3_Witness ==
    /\ Len(symbols) = 0
    /\ pc = "raised"
    /\ exc = "ValueError"

\* C4: a client error of any other class leaves the function as that error,
\* at the call that raised it: it is the last call made, later symbols are
\* never fetched, and nothing is returned.
C4_UnanticipatedAborts ==
    \A k \in DOMAIN outcomes :
        Unanticipated(outcomes[k]) =>
            /\ k = Len(calls)
            /\ pc = "raised"
            /\ exc = outcomes[k].error
            /\ retval = EmptyDict

C4_Witness ==
    /\ pc = "raised"
    /\ Len(calls) = 2
    /\ Len(symbols) = 3
    /\ Unanticipated(outcomes[2])
    /\ DOMAIN results # {}

\* the target date the claim describes, from the arguments and the clock
\* reading at invocation
C10_Target == IF date.kind = "None" THEN entry_now.date - 1 ELSE date.date

\* C10: every client call of one invocation receives the same window and
\* interval: 09:30 to 16:00 of the target date, "5m", whatever the earlier
\* calls did and however far the clock has moved since the invocation.
C10_OneWindow ==
    \A k \in DOMAIN calls :
        /\ calls[k].start_time = [date |-> C10_Target, time |-> 570]
        /\ calls[k].end_time = [date |-> C10_Target, time |-> 960]
        /\ calls[k].interval = "5m"

C10_Witness ==
    /\ pc = "returned"
    /\ date.kind = "None"
    /\ now.date # entry_now.date
    /\ Len(calls) >= 2
    /\ \E k \in DOMAIN outcomes : Absorbed(outcomes[k])
    /\ calls[Len(calls)].start_time = calls[1].start_time

C10_WitnessDatetime ==
    /\ pc = "returned"
    /\ date.kind = "datetime"
    /\ date.time # 0
    /\ calls[1].start_time = [date |-> date.date, time |-> 570]

-----------------------------------------------------------------------------
(* Characters: str.isalpha, str.isupper, str.isalnum, str.upper and the    *)
(* code-point order of str comparison, on the characters the model uses.   *)
(* "U+00BD" stands for the single character VULGAR FRACTION ONE HALF,      *)
(* which Python classes as numeric (isalnum) but neither letter nor digit. *)

UpperSeq == <<"A","B","C","D","E","F","G","H","I","J","K","L","M",
              "N","O","P","Q","R","S","T","U","V","W","X","Y","Z">>
LowerSeq == <<"a","b","c","d","e","f","g","h","i","j","k","l","m",
              "n","o","p","q","r","s","t","u","v","w","x","y","z">>
DigitSeq == <<"0","1","2","3","4","5","6","7","8","9">>

\* the characters of the model in ascending code-point order
CodePointOrder ==
    <<"\n", " ", "*", "-", ".", "/">> \o DigitSeq \o <<":">> \o UpperSeq
        \o LowerSeq \o <<"U+00BD">>

CodePoint(c) == CHOOSE k \in DOMAIN CodePointOrder : CodePointOrder[k] = c

UpperLetters == {UpperSeq[k] : k \in DOMAIN UpperSeq}
LowerLetters == {LowerSeq[k] : k \in DOMAIN LowerSeq}
Digits == {DigitSeq[k] : k \in DOMAIN DigitSeq}
OtherNumerics == {"U+00BD"}
Whitespace == {" ", "\n"}

IsAlpha(c) == c \in UpperLetters \cup LowerLetters
IsUpper(c) == c \in UpperLetters
IsDigit(c) == c \in Digits
IsAlnum(c) == IsAlpha(c) \/ IsDigit(c) \/ c \in OtherNumerics

ToUpper(c) ==
    IF c \in LowerLetters
    THEN UpperSeq[CHOOSE k \in DOMAIN LowerSeq : LowerSeq[k] = c]
    ELSE c

-----------------------------------------------------------------------------
(* _is_valid_symbol *)

\* line 136
MaxSymbolLen == 5

\* lines 133-157, test by test in the order of the code
is_valid_symbol(symbol) ==
    IF Len(symbol) = 0 THEN FALSE
    ELSE IF Len(symbol) > MaxSymbolLen THEN FALSE
    ELSE IF symbol[1] = "." \/ symbol[Len(symbol)] = "." THEN FALSE
    ELSE IF ~(\E k \in DOMAIN symbol : IsAlpha(symbol[k])) THEN FALSE
    ELSE \A k \in DOMAIN symbol :
            IF symbol[k] = "." THEN TRUE
            ELSE IF ~IsAlnum(symbol[k]) THEN FALSE
            ELSE IF IsAlpha(symbol[k]) /\ ~IsUpper(symbol[k]) THEN FALSE
            ELSE TRUE

\* the longest string drawn for the validator
MaxStrLen == 6

\* characters the strings are drawn from
ValidatorChars == {"A", "a", "1", ".", "-", "U+00BD"}

\* the strings of the docstring, the tests and the specification
ExampleStrings ==
    {<<"A","A","P","L">>, <<"B","R","K",".","B">>, <<"A">>, <<"A","1">>,
     <<"1","A">>, <<"1","2","3">>, <<>>, <<"T","O","O","L","O","N","G">>,
     <<"a","a","p","l">>, <<".","A">>, <<"A",".">>, <<"A","A","P","-","L">>,
     <<"A","A","P"," ","L">>, <<"A",".","B">>, <<"A","B","C","1","2">>,
     <<"G","O","O","G","L">>}

ValidatorInputs == SeqsUpTo(ValidatorChars, MaxStrLen) \cup ExampleStrings

\* one call of _is_valid_symbol
Validate ==
    /\ vpc = "idle"
    /\ vres' = is_valid_symbol(vsym)
    /\ vpc' = "done"
    /\ UNCHANGED vsym

SymInit ==
    /\ vsym \in ValidatorInputs
    /\ vpc = "idle"
    /\ vres = FALSE

InitSymbol == BarIdle /\ SymInit /\ RosterIdle

NextSymbol == Validate /\ UNCHANGED <<barVars, rosterVars>>

SpecSymbol == InitSymbol /\ [][NextSymbol]_vars

\* C5: _is_valid_symbol(s) is true exactly when s has 1 to 5 characters,
\* neither starts nor ends with '.', contains a letter, and every character
\* is an uppercase letter, a digit or '.'.
C5_ValidIff ==
    vpc = "done" =>
        (vres <=>
            /\ 1 <= Len(vsym) /\ Len(vsym) <= 5
            /\ vsym[1] # "." /\ vsym[Len(vsym)] # "."
            /\ \E k \in DOMAIN vsym : vsym[k] \in UpperLetters \cup LowerLetters
            /\ \A k \in DOMAIN vsym :
                 vsym[k] \in UpperLetters \/ vsym[k] \in Digits \/ vsym[k] = ".")

\* the same statement on strings without a numeric non-digit character:
\* there the code and the claim agree
C5_ValidIffOnLettersDigits ==
    (vpc = "done" /\ \A k \in DOMAIN vsym : vsym[k] \notin OtherNumerics) =>
        (vres <=>
            /\ 1 <= Len(vsym) /\ Len(vsym) <= 5
            /\ vsym[1] # "." /\ vsym[Len(vsym)] # "."
            /\ \E k \in DOMAIN vsym : vsym[k] \in UpperLetters \cup LowerLetters
            /\ \A k \in DOMAIN vsym :
                 vsym[k] \in UpperLetters \/ vsym[k] \in Digits \/ vsym[k] = ".")

-----------------------------------------------------------------------------
(* String operations used by get_sp500_symbols *)

\* the first position at which sep occurs in s, 0 if none (str.find + 1)
IndexOf(s, sep) ==
    LET hits == {p \in 1..(Len(s) - Len(sep) + 1) : SubSeq(s, p, p + Len(sep) - 1) = sep}
    IN  IF hits = {} THEN 0 ELSE CHOOSE p \in hits : \A q \in hits : p <= q

\* sep in s
Contains(s, sep) == IndexOf(s, sep) # 0

\* s.split(sep)[1], for s that contains sep: what lies between the first
\* occurrence of sep and the next one (or the end of s)
SplitSecond(s, sep) ==
    LET rest == SubSeq(s, IndexOf(s, sep) + Len(sep), Len(s))
        nxt == IndexOf(rest, sep)
    IN  IF nxt = 0 THEN rest ELSE SubSeq(rest, 1, nxt - 1)

\* s.rstrip('/')
RECURSIVE RStripSlash(_)
RStripSlash(s) ==
    IF Len(s) > 0 /\ s[Len(s)] = "/" THEN RStripSlash(SubSeq(s, 1, Len(s) - 1)) ELSE s

\* s.upper()
Upper(s) == [k \in DOMAIN s |-> ToUpper(s[k])]

\* s.strip()
RECURSIVE Strip(_)
Strip(s) ==
    IF Len(s) > 0 /\ s[1] \in Whitespace THEN Strip(SubSeq(s, 2, Len(s)))
    ELSE IF Len(s) > 0 /\ s[Len(s)] \in Whitespace THEN Strip(SubSeq(s, 1, Len(s) - 1))
    ELSE s

\* Python's str order: lexicographic by code point, a proper prefix first
RECURSIVE StrLess(_, _)
StrLess(a, b) ==
    IF Len(b) = 0 THEN FALSE
    ELSE IF Len(a) = 0 THEN TRUE
    ELSE IF a[1] # b[1] THEN CodePoint(a[1]) < CodePoint(b[1])
    ELSE StrLess(Tail(a), Tail(b))

\* sorted(...) of a set of strings
RECURSIVE Sorted(_)
Sorted(S) ==
    IF S = {} THEN <<>>
    ELSE LET m == CHOOSE x \in S : \A y \in S : x = y \/ StrLess(x, y)
         IN  <<m>> \o Sorted(S \ {m})

-----------------------------------------------------------------------------
(* get_sp500_symbols *)

\* line 43
Url == "https://stockanalysis.com/list/sp-500-stocks/"

Stocks == <<"/", "s", "t", "o", "c", "k", "s", "/">>

NoSymbol == <<"None">>

\* an except clause that names only the connection error
WrappedConnectionOnly(e) == e = "ConnectionError"

\* line 51: except requests.RequestException; its subclasses raised by
\* requests.get (ConnectionError, Timeout) and raise_for_status (HTTPError)
Wrapped(e) == e \in {"ConnectionError", "Timeout", "HTTPError"}

\* line 52: the message of the raised RequestException, part by part
FetchErrorMessage(e) == <<"Failed to fetch S&P 500 list from ", Url, ": ", e>>

\* the last table instead of the first
LastTable(tables) == tables[Len(tables)]

\* line 65
FirstTable(tables) == tables[1]

\* line 78: symbol_cell.find('a'), the first <a> of the cell or None
FindLink(cell) ==
    IF Len(cell.links) = 0 THEN [found |-> FALSE]
    ELSE [found |-> TRUE, tag |-> cell.links[1]]

\* line 80: link.get('href', '')
Href(tag) == IF tag.has_href THEN tag.href ELSE <<>>

\* line 83
LinkCandidate(href) == Upper(RStripSlash(SplitSecond(href, Stocks)))

\* line 89
TextCandidate(cell) == Upper(Strip(cell.text))

\* a row handler that reads the cell text first
RowSymbolTextFirst(row) ==
    IF Len(row) < 2 THEN NoSymbol
    ELSE LET cell == row[2]
             link == FindLink(cell)
         IN  IF is_valid_symbol(TextCandidate(cell)) THEN TextCandidate(cell)
             ELSE IF /\ link.found
                     /\ Contains(Href(link.tag), Stocks)
                     /\ is_valid_symbol(LinkCandidate(Href(link.tag)))
                  THEN LinkCandidate(Href(link.tag))
                  ELSE NoSymbol

\* lines 69-91: what one row appends to symbols: a symbol, or nothing
RowSymbol(row) ==
    IF Len(row) < 2 THEN NoSymbol
    ELSE LET cell == row[2]
             link == FindLink(cell)
         IN  IF /\ link.found
                /\ Contains(Href(link.tag), Stocks)
                /\ Len(LinkCandidate(Href(link.tag))) > 0
                /\ is_valid_symbol(LinkCandidate(Href(link.tag)))
             THEN LinkCandidate(Href(link.tag))
             ELSE IF is_valid_symbol(TextCandidate(cell)) THEN TextCandidate(cell)
             ELSE NoSymbol

\* lines 68-91: the list symbols after the loop over the rows
RECURSIVE CollectSymbols(_)
CollectSymbols(rows) ==
    IF Len(rows) = 0 THEN <<>>
    ELSE LET before == CollectSymbols(SubSeq(rows, 1, Len(rows) - 1))
             sym == RowSymbol(rows[Len(rows)])
         IN  IF sym = NoSymbol THEN before ELSE Append(before, sym)

\* a return that sorts the list without making it a set
RECURSIVE SortedListKeepingDuplicates(_)
SortedListKeepingDuplicates(syms) ==
    IF Len(syms) = 0 THEN <<>>
    ELSE LET m == CHOOSE k \in DOMAIN syms : \A j \in DOMAIN syms :
                      syms[k] = syms[j] \/ StrLess(syms[k], syms[j])
         IN  <<syms[m]>> \o SortedListKeepingDuplicates(
                 [k \in 1..(Len(syms) - 1) |-> IF k < m THEN syms[k] ELSE syms[k + 1]])

\* line 97: sorted(list(set(symbols)))
UniqueSorted(syms) == Sorted({syms[k] : k \in DOMAIN syms})

-----------------------------------------------------------------------------
(* The documents the model draws from.  A document is the sequence of its  *)
(* tables, a table the sequence of its rows, a row the sequence of its     *)
(* cells; a cell is its <a> tags in document order and its get_text().     *)

Link(href) == [has_href |-> TRUE, href |-> href]
Anchor == [has_href |-> FALSE, href |-> <<>>]
Cell(links, text) == [links |-> links, text |-> text]

\* hrefs
HrefAB == Stocks \o <<"A", "B", "/">>
HrefLower == Stocks \o <<"a", "b">>
HrefDots == Stocks \o <<"B", ".", "A", "/", "/">>
HrefDeep == Stocks \o <<"A", "/", "B", "/">>
HrefQuote == <<"/", "q", "/", "A", "B", "/">>
HrefBare == Stocks
HrefTwice == Stocks \o <<"A", "B">> \o Stocks \o <<"C", "/">>
HrefAbsolute == <<"h", "t", "t", "p", "s", ":", "/", "/", "x">> \o Stocks \o <<"1", "a", "/">>

\* second cells
SymbolCells ==
    {Cell(<<Link(HrefAB)>>, <<"A", "B">>),
     Cell(<<Link(HrefLower)>>, <<"S", "y", "m", "b", "o", "l">>),
     Cell(<<>>, <<" ", "c", "d", "\n">>),
     Cell(<<>>, <<"S", "y", "m", "b", "o", "l">>),
     Cell(<<Link(HrefDeep)>>, <<"a", "1">>),
     Cell(<<Link(HrefQuote), Link(HrefAB)>>, <<"*", "A", "B">>),
     Cell(<<Link(HrefBare)>>, <<"B", ".", "A">>),
     Cell(<<Anchor>>, <<"A", "B">>),
     Cell(<<Link(HrefTwice)>>, <<"1">>),
     Cell(<<Link(HrefDots)>>, <<>>),
     Cell(<<Link(HrefAB)>>, <<" ", "c", "d", "\n">>),
     Cell(<<Link(HrefAbsolute)>>, <<>>)}

RankCell == Cell(<<>>, <<"1">>)

\* rows: no cell, one cell, two cells, and three cells of which only the
\* first and the third hold a symbol
Rows ==
    {<<>>, <<Cell(<<Link(HrefAB)>>, <<"A", "B">>)>>}
        \cup {<<RankCell, c>> : c \in SymbolCells}
        \cup {<<Cell(<<>>, <<"A", "B">>), Cell(<<>>, <<"S", "y", "m", "b", "o", "l">>), Cell(<<>>, <<" ", "c", "d", "\n">>)>>}

\* the most rows a table of the model has
MaxRows == 3

Tables == SeqsUpTo(Rows, MaxRows)

\* a second table, which holds a symbol of its own
SecondTable == <<<<RankCell, Cell(<<>>, <<"Z", "Z">>)>>>>

Documents == {<<>>} \cup {<<t>> : t \in Tables} \cup {<<t, SecondTable>> : t \in Tables}

\* what the GET does: it succeeds, requests raises one of its exceptions, or
\* (as the mock of test_get_sp500_symbols_request_exception does) something
\* raises an exception that is not a requests.RequestException
HttpFailures == {"ConnectionError", "Timeout", "HTTPError", "Exception"}

-----------------------------------------------------------------------------
(* Actions of get_sp500_symbols: one per way the call ends *)

\* lines 48-52: the GET or raise_for_status raises
GetRaises ==
    /\ rpc = "idle"
    /\ http # "ok"
    /\ get_calls' = get_calls + 1
    /\ rexc' = IF Wrapped(http)
               THEN [kind |-> "RequestException", message |-> FetchErrorMessage(http),
                     cause |-> http]
               ELSE [kind |-> http, message |-> <<http>>, cause |-> "none"]
    /\ rpc' = "raised"
    /\ UNCHANGED <<http, doc, parsed, collected, roster>>

\* lines 48-62: the document has no table
NoTable ==
    /\ rpc = "idle"
    /\ http = "ok"
    /\ Len(doc) = 0
    /\ get_calls' = get_calls + 1
    /\ parsed' = TRUE
    /\ rexc' = [kind |-> "ValueError",
                message |-> <<"No table found on the S&P 500 stocks page">>,
                cause |-> "none"]
    /\ rpc' = "raised"
    /\ UNCHANGED <<http, doc, collected, roster>>

\* lines 48-94: the rows of the first table yield no symbol
NoSymbols ==
    /\ rpc = "idle"
    /\ http = "ok"
    /\ Len(doc) # 0
    /\ CollectSymbols(FirstTable(doc)) = <<>>
    /\ get_calls' = get_calls + 1
    /\ parsed' = TRUE
    /\ collected' = <<>>
    /\ rexc' = [kind |-> "ValueError",
                message |-> <<"No symbols found in the table. Page structure may have changed.">>,
                cause |-> "none"]
    /\ rpc' = "raised"
    /\ UNCHANGED <<http, doc, roster>>

\* lines 48-99: the call returns the roster
ReturnRoster ==
    /\ rpc = "idle"
    /\ http = "ok"
    /\ Len(doc) # 0
    /\ CollectSymbols(FirstTable(doc)) # <<>>
    /\ get_calls' = get_calls + 1
    /\ parsed' = TRUE
    /\ collected' = CollectSymbols(FirstTable(doc))
    /\ roster' = UniqueSorted(CollectSymbols(FirstTable(doc)))
    /\ rpc' = "returned"
    /\ UNCHANGED <<http, doc, rexc>>

RosterInit ==
    /\ \/ http = "ok" /\ doc \in Documents
       \/ http \in HttpFailures /\ doc \in {<<>>, <<SecondTable>>}
    /\ rpc = "idle"
    /\ get_calls = 0
    /\ parsed = FALSE
    /\ collected = <<>>
    /\ rexc = NoException
    /\ roster = <<>>

InitRoster == BarIdle /\ SymIdle /\ RosterInit

NextRoster ==
    \/ GetRaises /\ UNCHANGED <<barVars, symVars>>
    \/ NoTable /\ UNCHANGED <<barVars, symVars>>
    \/ NoSymbols /\ UNCHANGED <<barVars, symVars>>
    \/ ReturnRoster /\ UNCHANGED <<barVars, symVars>>

SpecRoster == InitRoster /\ [][NextRoster]_vars

-----------------------------------------------------------------------------
(* Properties of get_sp500_symbols *)

\* a <= b in lexicographic code-point order, stated position by position
LexLeq(a, b) ==
    \/ a = b
    \/ \E p \in 1..Len(b) :
         /\ p <= Len(a) + 1
         /\ \A k \in 1..(p - 1) : a[k] = b[k]
         /\ p = Len(a) + 1 \/ CodePoint(a[p]) < CodePoint(b[p])

\* "/stocks/" stands in t at position p
StocksAt(t, p) == p + 7 <= Len(t) /\ SubSeq(t, p, p + 7) = Stocks

\* the candidate read from a link target t that contains "/stocks/": what
\* lies between the first "/stocks/" and the next one (or the end), without
\* its trailing slashes, in upper case
TargetCandidate(t) ==
    LET from == CHOOSE p \in 1..Len(t) :
                    /\ StocksAt(t, p)
                    /\ \A q \in 1..(p - 1) : ~StocksAt(t, q)
        rest == SubSeq(t, from + 8, Len(t))
        stops == {q \in 1..Len(rest) : StocksAt(rest, q)}
        mid == IF stops = {} THEN rest
               ELSE SubSeq(rest, 1, (CHOOSE q \in stops : \A r \in stops : q <= r) - 1)
        n == CHOOSE m \in 0..Len(mid) :
                 /\ m = 0 \/ mid[m] # "/"
                 /\ \A k \in (m + 1)..Len(mid) : mid[k] = "/"
    IN  Upper(SubSeq(mid, 1, n))

NamesStock(tag) == tag.has_href /\ \E p \in 1..Len(tag.href) : StocksAt(tag.href, p)

\* what a row contributes when the decision rests on link number k of its
\* second cell (k = 0: the cell has no such link)
Contribution(row, k) ==
    LET cell == row[2]
        text == Upper(Strip(cell.text))
    IN  IF k # 0 /\ is_valid_symbol(TargetCandidate(cell.links[k].href))
        THEN <<TargetCandidate(cell.links[k].href)>>
        ELSE IF is_valid_symbol(text) THEN <<text>>
        ELSE <<>>

\* the claim as stated: the link that decides is a link of the cell whose
\* target contains "/stocks/" (the first such link)
ClaimedRow(row) ==
    IF Len(row) < 2 THEN <<>>
    ELSE LET hits == {k \in DOMAIN row[2].links : NamesStock(row[2].links[k])}
         IN  Contribution(row, IF hits = {} THEN 0
                                ELSE CHOOSE k \in hits : \A j \in hits : k <= j)

\* the claim amended: only the first link of the cell is looked at
AmendedRow(row) ==
    IF Len(row) < 2 THEN <<>>
    ELSE Contribution(row, IF Len(row[2].links) > 0 /\ NamesStock(row[2].links[1])
                           THEN 1 ELSE 0)

RECURSIVE ConcatClaimed(_)
ConcatClaimed(rows) ==
    IF Len(rows) = 0 THEN <<>> ELSE ClaimedRow(Head(rows)) \o ConcatClaimed(Tail(rows))

RECURSIVE ConcatAmended(_)
ConcatAmended(rows) ==
    IF Len(rows) = 0 THEN <<>> ELSE AmendedRow(Head(rows)) \o ConcatAmended(Tail(rows))

Scanned == rpc \in {"returned", "raised"} /\ http = "ok" /\ Len(doc) > 0

NoTableMessage == <<"No table found on the S&P 500 stocks page">>
NoSymbolsMessage == <<"No symbols found in the table. Page structure may have changed.">>

\* C6: a returned roster has no duplicate, is in ascending lexicographic
\* order, holds exactly the symbols collected from the rows, and each of its
\* elements passes _is_valid_symbol.
C6_RosterUniqueSorted ==
    rpc = "returned" =>
        /\ \A j, k \in DOMAIN roster : j < k => roster[j] # roster[k]
        /\ \A j, k \in DOMAIN roster : j < k => LexLeq(roster[j], roster[k])
        /\ Range(roster) = Range(collected)
        /\ \A k \in DOMAIN roster : is_valid_symbol(roster[k])

C6_Witness ==
    /\ rpc = "returned"
    /\ Len(collected) = 3
    /\ Len(roster) = 2
    /\ collected[1] = roster[2]
    /\ collected[3] = collected[1]

\* C7: once the page is retrieved, the call raises "no table found" exactly
\* when the document has no table, raises "no symbols found" exactly when it
\* has one but no row of the first table contributes a symbol, and returns
\* in every other case.
C7_ParseErrors ==
    (rpc # "idle" /\ http = "ok") =>
        LET noTable == Len(doc) = 0
            noSymbol == Len(doc) > 0 /\ \A k \in DOMAIN doc[1] : AmendedRow(doc[1][k]) = <<>>
        IN  /\ (rpc = "raised" /\ rexc.kind = "ValueError" /\ rexc.message = NoTableMessage)
                   <=> noTable
            /\ (rpc = "raised" /\ rexc.kind = "ValueError" /\ rexc.message = NoSymbolsMessage)
                   <=> noSymbol
            /\ rpc = "returned" <=> (~noTable /\ ~noSymbol)
            /\ noTable => collected = <<>>
            /\ NoTableMessage # NoSymbolsMessage

C7_Witness ==
    /\ rpc = "raised"
    /\ http = "ok"
    /\ rexc.message = NoSymbolsMessage
    /\ Len(doc) = 2
    /\ Len(doc[1]) = 3
    /\ \E k \in DOMAIN doc[1] : Len(doc[1][k]) = 3

C7_WitnessNoTable ==
    /\ rpc = "raised"
    /\ http = "ok"
    /\ rexc.message = NoTableMessage

\* C8: when the GET fails (connection error, timeout, failure status) the
\* call raises RequestException with the URL and the cause in its message;
\* the response is not parsed, no ValueError is raised, nothing is returned,
\* and the GET was made once.
C8_FetchError ==
    (rpc # "idle" /\ http \in {"ConnectionError", "Timeout", "HTTPError"}) =>
        /\ rpc = "raised"
        /\ rexc.kind = "RequestException"
        /\ \E k \in DOMAIN rexc.message : rexc.message[k] = Url
        /\ \E k \in DOMAIN rexc.message : rexc.message[k] = http
        /\ ~parsed
        /\ roster = <<>>
        /\ get_calls = 1

C8_Witness ==
    /\ rpc = "raised"
    /\ http = "Timeout"
    /\ Len(doc) > 0
    /\ rexc.kind = "RequestException"

\* C9 as stated: the rows of the first table contribute, in order, at most
\* one symbol each: the candidate of a link of the second cell whose target
\* contains "/stocks/" if it is valid, else the trimmed upper-cased cell text
\* if that is valid, else nothing.
C9_Original ==
    Scanned => collected = ConcatClaimed(doc[1])

\* C9 amended: the same, with the link that decides being the first link of
\* the second cell, and the candidate being what follows the first
\* "/stocks/" of its target up to the next "/stocks/" or the end.
C9_FirstLinkThenText ==
    Scanned => collected = ConcatAmended(doc[1])

C9_Witness ==
    /\ rpc = "returned"
    /\ Len(doc[1]) = 3
    /\ doc[1][1] = <<RankCell, Cell(<<Link(HrefAB)>>, <<" ", "c", "d", "\n">>)>>
    /\ doc[1][2] = <<RankCell, Cell(<<Link(HrefDeep)>>, <<"a", "1">>)>>
    /\ Len(doc[1][3]) = 1
    /\ collected = << <<"A", "B">>, <<"A", "1">> >>

-----------------------------------------------------------------------------
(* The order of the client calls *)

\* C11: the client calls made so far are, position by position, the calls
\* for the first symbols of the input list, each finished before the next is
\* made; an absorbed failure moves the loop on by exactly one symbol; and the
\* function returns only when every symbol has had its one call.
C11_OncePerSymbolInOrder ==
    /\ Len(calls) <= Len(symbols)
    /\ Len(outcomes) = Len(calls)
    /\ \A k \in DOMAIN calls : calls[k].symbol = symbols[k]
    /\ pc = "loop" => i = Len(calls) + 1
    /\ pc = "returned" =>
         /\ Len(calls) = Len(symbols)
         /\ \A k \in DOMAIN outcomes : ~Unanticipated(outcomes[k])
    /\ (pc = "raised" /\ Len(symbols) > 0) => Unanticipated(outcomes[Len(outcomes)])

C11_Witness ==
    /\ pc = "returned"
    /\ Len(symbols) = 3
    /\ symbols[1] # symbols[2] /\ symbols[2] # symbols[3] /\ symbols[1] # symbols[3]
    /\ Absorbed(outcomes[1])
    /\ outcomes[2].kind = "ok"
    /\ Absorbed(outcomes[3])
    /\ calls[3].symbol = symbols[3]

====
